---- MODULE Spec2Model ----
(***************************************************************************)
(* Model of clash-rs' static proxy provider (PlainProvider) and of the     *)
(* outbound group configuration records (OutboundGroupProtocol).           *)
(*                                                                         *)
(* The provider part is a state machine over a set of providers, the tasks *)
(* that call them and the background timer of every provider's HealthCheck *)
(* engine.  The configuration part applies TryFrom<HashMap<String,Value>>  *)
(* to group records drawn from a bounded set.                              *)
(***************************************************************************)
EXTENDS Naturals, Sequences, FiniteSets, TLC

\* ---------------------------------------------------------------- bounds
NumProviders == 2
NumCallers == 2
MaxProxies == 2

Providers == 1..NumProviders
Callers == 1..NumCallers
Names == {"a", "b"}
Handles == {"h1", "h2"}

RECURSIVE SeqsUpTo(_, _)
SeqsUpTo(S, n) ==
    IF n = 0 THEN {<<>>}
    ELSE LET shorter == SeqsUpTo(S, n - 1)
         IN  shorter \cup {Append(s, x) : s \in {t \in shorter : Len(t) = n - 1}, x \in S}

ProxyLists == SeqsUpTo(Handles, MaxProxies)
HealthCheckConfigs ==
    {[lazy |-> FALSE, interval |-> 0], [lazy |-> FALSE, interval |-> 1],
     [lazy |-> TRUE, interval |-> 1]}

\* lock holders other than callers: the engine's background loop, and nobody
Free == NumCallers + 1
Timer == NumCallers + 2

VARIABLES
    new_result,   \* per provider: what PlainProvider::new returned
    self,         \* per provider: the PlainProvider value (name, proxies, hc)
    inner,        \* per provider: holder of the Mutex<Inner> (a caller or Free)
    hc_lock,      \* per provider: holder of the engine's own lock
    timer,        \* per provider: the engine's background loop: "off", "idle", "probing"
    called,       \* per provider: touch() or healthcheck() was called at least once
    given,        \* per provider: the arguments PlainProvider::new was called with
    pc,           \* per caller: position inside the method it runs
    target,       \* per caller: the provider of the call it is running
    pending,      \* per caller in touch(): the forced pass that was in flight at the call
    ret,          \* the value returned by the call that completed in the last step
    mapping,      \* the group record handed to OutboundGroupProtocol::try_from
    parsed        \* the result of try_from

provVars == <<new_result, self, inner, hc_lock, timer, called, given, pc, target, pending, ret>>
groupVars == <<mapping, parsed>>
vars == <<provVars, groupVars>>

\* ------------------------------------------------- HealthCheck (engine)

\* HealthCheck::auto: the loop starts at construction iff interval > 0 and not lazy
auto(hc) == hc.interval > 0 /\ ~hc.lazy

\* HealthCheck::kick_off: the repeating timer starts
kick_off(p) == timer' = [timer EXCEPT ![p] = "idle"]

\* HealthCheck::touch, under the engine lock: records the use and, in lazy mode,
\* starts the timer if it has not started yet
hc_touch(p) ==
    /\ hc_lock[p] = Free
    /\ timer' = [timer EXCEPT ![p] =
                    IF timer[p] = "off" /\ self[p].hc.lazy THEN "idle" ELSE timer[p]]
    /\ UNCHANGED hc_lock

\* a check() that starts its pass without taking the engine lock
hc_check_begin_unlocked(c, p) ==
    /\ hc_lock' = [hc_lock EXCEPT ![p] = IF hc_lock[p] = Free THEN c ELSE hc_lock[p]]

\* HealthCheck::check: takes the engine lock and starts one probe pass
hc_check_begin(c, p) ==
    /\ hc_lock[p] = Free
    /\ hc_lock' = [hc_lock EXCEPT ![p] = c]

\* HealthCheck::check: the pass is complete, the engine lock is released
hc_check_end(c, p) ==
    /\ hc_lock' = [hc_lock EXCEPT ![p] = IF hc_lock[p] = c THEN Free ELSE hc_lock[p]]

\* ProviderType / ProviderVehicleType and their Display
ProviderTypeToString(t) == IF t = "Proxy" THEN "Proxy" ELSE "Rule"
ProviderVehicleTypeToString(v) ==
    IF v = "Compatible" THEN "Compatible" ELSE IF v = "File" THEN "File" ELSE "HTTP"

\* AnyOutboundHandler::as_map: the serializable summary of one handle
HandlerAsMap(h) == [name |-> h]

\* ------------------------------------------------------- PlainProvider

NoProvider == [name |-> "", proxies |-> <<>>, hc |-> [lazy |-> FALSE, interval |-> 0]]
NotCalled == [tag |-> "none", msg |-> <<>>]
NoTarget == NumProviders + 1
NoOne == Free
NoRet == [op |-> "none", of |-> NoTarget, val |-> <<>>]
Return(p, op, val) == [op |-> op, of |-> p, val |-> val]

\* Error::InvalidConfig(format!("{}: proxies is empty", name))
InvalidConfig(n) == [tag |-> "InvalidConfig", msg |-> <<n, ": proxies is empty">>]
OkResult == [tag |-> "Ok", msg |-> <<>>]

name(p) == self[p].name
\* a provider that reports the file vehicle
vehicle_type_file(p) == "File"
vehicle_type(p) == "Compatible"
typ(p) == "Proxy"
\* self.proxies.clone()
proxies(p) == self[p].proxies

Idle(c) == pc[c] = "idle"
Built(p) == new_result[p].tag = "Ok"
\* the callers that are inside a method of provider p
Inside(p) == {c \in Callers : ~Idle(c) /\ target[c] = p}
\* the callers whose forced probe pass on p is in flight
ForcedPasses(p) == {c \in Callers : pc[c] = "check_pass" /\ target[c] = p}

\* a constructor without the is_empty check
new_unchecked(p, n, ps, hc) ==
    /\ new_result[p].tag = "none"
    /\ IF auto(hc) THEN kick_off(p) ELSE UNCHANGED timer
    /\ self' = [self EXCEPT ![p] = [name |-> n, proxies |-> ps, hc |-> hc]]
    /\ new_result' = [new_result EXCEPT ![p] = OkResult]
    /\ given' = [given EXCEPT ![p] = [name |-> n, proxies |-> ps, hc |-> hc]]
    /\ ret' = NoRet
    /\ UNCHANGED <<inner, hc_lock, called, pc, target, pending, groupVars>>

\* a constructor that kicks the engine off whatever auto() says
new_always_kicks(p, n, ps, hc) ==
    /\ new_result[p].tag = "none"
    /\ IF ps = <<>>
       THEN /\ new_result' = [new_result EXCEPT ![p] = InvalidConfig(n)]
            /\ UNCHANGED <<self, timer>>
       ELSE /\ kick_off(p)
            /\ self' = [self EXCEPT ![p] = [name |-> n, proxies |-> ps, hc |-> hc]]
            /\ new_result' = [new_result EXCEPT ![p] = OkResult]
    /\ given' = [given EXCEPT ![p] = [name |-> n, proxies |-> ps, hc |-> hc]]
    /\ ret' = NoRet
    /\ UNCHANGED <<inner, hc_lock, called, pc, target, pending, groupVars>>

\* PlainProvider::new(name, proxies, hc)
new(p, n, ps, hc) ==
    /\ new_result[p].tag = "none"
    /\ IF ps = <<>>
       THEN /\ new_result' = [new_result EXCEPT ![p] = InvalidConfig(n)]
            /\ UNCHANGED <<self, timer>>
       ELSE /\ IF auto(hc) THEN kick_off(p) ELSE UNCHANGED timer
            /\ self' = [self EXCEPT ![p] = [name |-> n, proxies |-> ps, hc |-> hc]]
            /\ new_result' = [new_result EXCEPT ![p] = OkResult]
    /\ given' = [given EXCEPT ![p] = [name |-> n, proxies |-> ps, hc |-> hc]]
    /\ ret' = NoRet
    /\ UNCHANGED <<inner, hc_lock, called, pc, target, pending, groupVars>>

\* initialize(&mut self): needs the exclusive borrow, so no other call is running
initialize(c, p) ==
    /\ Idle(c) /\ Built(p) /\ Inside(p) = {}
    /\ ret' = Return(p, "initialize", "Ok")
    /\ UNCHANGED <<new_result, self, inner, hc_lock, timer, called, given, pc, target,
                   pending, groupVars>>

\* an update that replaces the handle set by a failed fetch's empty list
update_refetch(c, p) ==
    /\ Idle(c) /\ Built(p)
    /\ self' = [self EXCEPT ![p].proxies = <<>>]
    /\ ret' = Return(p, "update", "Ok")
    /\ UNCHANGED <<new_result, inner, hc_lock, timer, called, given, pc, target,
                   pending, groupVars>>

update(c, p) ==
    /\ Idle(c) /\ Built(p)
    /\ ret' = Return(p, "update", "Ok")
    /\ UNCHANGED <<new_result, self, inner, hc_lock, timer, called, given, pc, target,
                   pending, groupVars>>

proxies_call(c, p) ==
    /\ Idle(c) /\ Built(p)
    /\ ret' = Return(p, "proxies", proxies(p))
    /\ UNCHANGED <<new_result, self, inner, hc_lock, timer, called, given, pc, target,
                   pending, groupVars>>

\* as_map, up to the await of join_all over the handles' summaries
as_map_call(c, p) ==
    /\ Idle(c) /\ Built(p)
    /\ target' = [target EXCEPT ![c] = p]
    /\ pc' = [pc EXCEPT ![c] = "as_map"]
    /\ ret' = NoRet
    /\ UNCHANGED <<new_result, self, inner, hc_lock, timer, called, given, pending, groupVars>>

\* the map as_map builds
as_map(p) ==
    [name |-> name(p),
     type |-> ProviderTypeToString(typ(p)),
     vehicleType |-> ProviderVehicleTypeToString(vehicle_type(p)),
     proxies |-> [i \in 1..Len(proxies(p)) |-> HandlerAsMap(proxies(p)[i])]]

\* an as_map that reads the handles under the provider's lock
as_map_return_locked(c) ==
    /\ pc[c] = "as_map"
    /\ inner[target[c]] = Free
    /\ pc' = [pc EXCEPT ![c] = "idle"]
    /\ target' = [target EXCEPT ![c] = NoTarget]
    /\ ret' = Return(target[c], "as_map", as_map(target[c]))
    /\ UNCHANGED <<new_result, self, inner, hc_lock, timer, called, given, pending, groupVars>>

as_map_return(c) ==
    /\ pc[c] = "as_map"
    /\ pc' = [pc EXCEPT ![c] = "idle"]
    /\ target' = [target EXCEPT ![c] = NoTarget]
    /\ ret' = Return(target[c], "as_map", as_map(target[c]))
    /\ UNCHANGED <<new_result, self, inner, hc_lock, timer, called, given, pending, groupVars>>

\* a lock that resolves although another caller holds it
lock_unguarded(c, p) ==
    /\ inner' = [inner EXCEPT ![p] = c]

\* Mutex::lock resolves for caller c on provider p
lock(c, p) ==
    /\ inner[p] = Free
    /\ inner' = [inner EXCEPT ![p] = c]

\* a guard that is leaked instead of dropped
unlock_leaked(c, p) ==
    UNCHANGED inner

\* the MutexGuard of caller c on provider p is dropped
unlock(c, p) ==
    inner' = [inner EXCEPT ![p] = IF inner[p] = c THEN Free ELSE inner[p]]

\* touch(): self.inner.lock() is awaited
touch_call(c, p) ==
    /\ Idle(c) /\ Built(p)
    /\ target' = [target EXCEPT ![c] = p]
    /\ pc' = [pc EXCEPT ![c] = "touch_lock"]
    /\ called' = [called EXCEPT ![p] = TRUE]
    /\ pending' = [pending EXCEPT ![c] =
                      IF ForcedPasses(p) = {} THEN NoOne ELSE CHOOSE d \in ForcedPasses(p) : TRUE]
    /\ ret' = NoRet
    /\ UNCHANGED <<new_result, self, inner, hc_lock, timer, given, groupVars>>

touch_locked(c) ==
    /\ pc[c] = "touch_lock"
    /\ lock(c, target[c])
    /\ pc' = [pc EXCEPT ![c] = "touch_hc"]
    /\ ret' = NoRet
    /\ UNCHANGED <<new_result, self, hc_lock, timer, called, given, target, pending, groupVars>>

\* hc.touch() completes, the guard is dropped and touch() returns
touch_return(c) ==
    /\ pc[c] = "touch_hc"
    /\ hc_touch(target[c])
    /\ unlock(c, target[c])
    /\ pc' = [pc EXCEPT ![c] = "idle"]
    /\ target' = [target EXCEPT ![c] = NoTarget]
    /\ pending' = [pending EXCEPT ![c] = NoOne]
    /\ ret' = Return(target[c], "touch", "unit")
    /\ UNCHANGED <<new_result, self, called, given, groupVars>>

\* healthcheck(): self.inner.lock() is awaited
healthcheck_call(c, p) ==
    /\ Idle(c) /\ Built(p)
    /\ target' = [target EXCEPT ![c] = p]
    /\ pc' = [pc EXCEPT ![c] = "check_lock"]
    /\ called' = [called EXCEPT ![p] = TRUE]
    /\ ret' = NoRet
    /\ UNCHANGED <<new_result, self, inner, hc_lock, timer, given, pending, groupVars>>

healthcheck_locked(c) ==
    /\ pc[c] = "check_lock"
    /\ lock(c, target[c])
    /\ pc' = [pc EXCEPT ![c] = "check_hc"]
    /\ ret' = NoRet
    /\ UNCHANGED <<new_result, self, hc_lock, timer, called, given, target, pending, groupVars>>

\* hc.check() starts its probe pass
healthcheck_pass(c) ==
    /\ pc[c] = "check_hc"
    /\ hc_check_begin(c, target[c])
    /\ pc' = [pc EXCEPT ![c] = "check_pass"]
    /\ ret' = NoRet
    /\ UNCHANGED <<new_result, self, inner, timer, called, given, target, pending, groupVars>>

\* the pass completes, hc.check() returns, the guard is dropped
healthcheck_return(c) ==
    /\ pc[c] = "check_pass"
    /\ hc_check_end(c, target[c])
    /\ unlock(c, target[c])
    /\ pc' = [pc EXCEPT ![c] = "idle"]
    /\ target' = [target EXCEPT ![c] = NoTarget]
    /\ pending' = [d \in Callers |-> IF pending[d] = c THEN NoOne ELSE pending[d]]
    /\ ret' = Return(target[c], "healthcheck", "unit")
    /\ UNCHANGED <<new_result, self, timer, called, given, groupVars>>

\* a tick of the loop started by kick_off: one probe pass, unless one is running
timer_tick(p) ==
    /\ timer[p] = "idle"
    /\ hc_lock[p] = Free
    /\ hc_lock' = [hc_lock EXCEPT ![p] = Timer]
    /\ timer' = [timer EXCEPT ![p] = "probing"]
    /\ ret' = NoRet
    /\ UNCHANGED <<new_result, self, inner, called, given, pc, target, pending, groupVars>>

\* the pass of the loop completes
timer_pass_end(p) ==
    /\ timer[p] = "probing"
    /\ hc_lock' = [hc_lock EXCEPT ![p] = IF hc_lock[p] = Timer THEN Free ELSE hc_lock[p]]
    /\ timer' = [timer EXCEPT ![p] = "idle"]
    /\ ret' = NoRet
    /\ UNCHANGED <<new_result, self, inner, called, given, pc, target, pending, groupVars>>

\* ------------------------------------- OutboundGroupProtocol::try_from

\* A group record (HashMap<String, Value>): every key holds <<>> when the key
\* is absent and <<v>> when it is present with value v.  Every present value
\* has the type of its field; the type tag may be one no kind has.
TypeTags == {"relay", "url-test", "fallback", "load-balance", "select", "urltest"}
Mappings ==
    [type : {<<>>} \cup {<<t>> : t \in TypeTags},
     name : {<<>>, <<"g">>},
     proxies : {<<>>, << <<"h1", "h2">> >>},
     use : {<<>>, << <<"prov">> >>},
     url : {<<>>, <<"http://u">>},
     interval : {<<>>, <<300>>},
     tolerance : {<<>>, <<10>>},
     lazy : {<<>>, <<TRUE>>},
     strategy : {<<>>, <<"round-robin">>, <<"consistent-hashing">>}]

NoMapping == [type |-> <<>>, name |-> <<>>, proxies |-> <<>>, use |-> <<>>, url |-> <<>>,
              interval |-> <<>>, tolerance |-> <<>>, lazy |-> <<>>, strategy |-> <<>>]
NoParse == [ok |-> FALSE, err |-> "none"]

\* map_serde_error: every serde error becomes Error::InvalidConfig
map_serde_error(x) == [ok |-> FALSE, err |-> "InvalidConfig"]
OkGroup(g) == [ok |-> TRUE, value |-> g]

\* utils::deserialize_u64 on a YAML number that fits u64: the number
deserialize_u64(v) == v

\* a field without Option<..> that the record lacks is serde's missing-field error
Missing(m, fields) == \E f \in fields : m[f] = <<>>

\* derive(Deserialize) for OutboundGroupRelay
OutboundGroupRelay(m) ==
    IF Missing(m, {"name"}) THEN map_serde_error("missing field")
    ELSE OkGroup([kind |-> "Relay", name |-> m.name[1], proxies |-> m.proxies,
                  use_provider |-> m.use])

\* derive(Deserialize) for OutboundGroupUrlTest
OutboundGroupUrlTest(m) ==
    IF Missing(m, {"name", "url", "interval"}) THEN map_serde_error("missing field")
    ELSE OkGroup([kind |-> "UrlTest", name |-> m.name[1], proxies |-> m.proxies,
                  use_provider |-> m.use, url |-> m.url[1],
                  interval |-> deserialize_u64(m.interval[1]),
                  tolerance |-> m.tolerance, lazy |-> m.lazy])

\* derive(Deserialize) for OutboundGroupFallback: proxies is a plain Vec<String>
\* and the record has no use_provider field, so a use key is skipped
OutboundGroupFallback(m) ==
    IF Missing(m, {"name", "proxies", "url", "interval"}) THEN map_serde_error("missing field")
    ELSE OkGroup([kind |-> "Fallback", name |-> m.name[1], proxies |-> m.proxies[1],
                  url |-> m.url[1], interval |-> deserialize_u64(m.interval[1])])

\* derive(Deserialize) for LoadBalanceStrategy
LoadBalanceStrategy(s) ==
    CASE s = "consistent-hashing" -> "ConsistentHashing"
      [] s = "round-robin" -> "RoundRobin"

\* derive(Deserialize) for OutboundGroupLoadBalance
OutboundGroupLoadBalance(m) ==
    IF Missing(m, {"name", "url", "interval"}) THEN map_serde_error("missing field")
    ELSE OkGroup([kind |-> "LoadBalance", name |-> m.name[1], proxies |-> m.proxies,
                  use_provider |-> m.use, url |-> m.url[1],
                  interval |-> deserialize_u64(m.interval[1]),
                  strategy |-> IF m.strategy = <<>> THEN <<>>
                               ELSE <<LoadBalanceStrategy(m.strategy[1])>>])

\* derive(Deserialize) for OutboundGroupSelect
OutboundGroupSelect(m) ==
    IF Missing(m, {"name"}) THEN map_serde_error("missing field")
    ELSE OkGroup([kind |-> "Select", name |-> m.name[1], proxies |-> m.proxies,
                  use_provider |-> m.use])

\* derive(Deserialize) for OutboundGroupProtocol, #[serde(tag = "type")]
OutboundGroupProtocol(m) ==
    IF m.type = <<>> THEN map_serde_error("missing field")
    ELSE CASE m.type[1] = "relay" -> OutboundGroupRelay(m)
           [] m.type[1] = "url-test" -> OutboundGroupUrlTest(m)
           [] m.type[1] = "fallback" -> OutboundGroupFallback(m)
           [] m.type[1] = "load-balance" -> OutboundGroupLoadBalance(m)
           [] m.type[1] = "select" -> OutboundGroupSelect(m)
           [] OTHER -> map_serde_error("unknown variant")

\* impl TryFrom<HashMap<String, Value>> for OutboundGroupProtocol
try_from ==
    /\ parsed = NoParse
    /\ parsed' = OutboundGroupProtocol(mapping)
    /\ UNCHANGED <<mapping, provVars>>

Init ==
    /\ new_result = [p \in Providers |-> NotCalled]
    /\ self = [p \in Providers |-> NoProvider]
    /\ inner = [p \in Providers |-> Free]
    /\ hc_lock = [p \in Providers |-> Free]
    /\ timer = [p \in Providers |-> "off"]
    /\ called = [p \in Providers |-> FALSE]
    /\ given = [p \in Providers |-> NoProvider]
    /\ pc = [c \in Callers |-> "idle"]
    /\ target = [c \in Callers |-> NoTarget]
    /\ pending = [c \in Callers |-> NoOne]
    /\ ret = NoRet
    /\ mapping = NoMapping
    /\ parsed = NoParse

\* every operation, on the providers of P, constructed from the given inputs
Step(P, NS, PS, HS) ==
    \/ \E p \in P, n \in NS, ps \in PS, hc \in HS : new(p, n, ps, hc)
    \/ \E c \in Callers, p \in P : initialize(c, p)
    \/ \E c \in Callers, p \in P : update(c, p)
    \/ \E c \in Callers, p \in P : proxies_call(c, p)
    \/ \E c \in Callers, p \in P : as_map_call(c, p)
    \/ \E c \in Callers : as_map_return(c)
    \/ \E c \in Callers, p \in P : touch_call(c, p)
    \/ \E c \in Callers : touch_locked(c)
    \/ \E c \in Callers : touch_return(c)
    \/ \E c \in Callers, p \in P : healthcheck_call(c, p)
    \/ \E c \in Callers : healthcheck_locked(c)
    \/ \E c \in Callers : healthcheck_pass(c)
    \/ \E c \in Callers : healthcheck_return(c)
    \/ \E p \in P : timer_tick(p)
    \/ \E p \in P : timer_pass_end(p)

\* one provider under every operation, constructed from every input
Next == Step({1}, Names, ProxyLists, HealthCheckConfigs)

\* every provider, one name and one handle list
\* the operations that take the provider's lock, and the engines' timers
StepLock(P, NS, PS, HS) ==
    \/ \E p \in P, n \in NS, ps \in PS, hc \in HS : new(p, n, ps, hc)
    \/ \E c \in Callers, p \in P : touch_call(c, p)
    \/ \E c \in Callers : touch_locked(c)
    \/ \E c \in Callers : touch_return(c)
    \/ \E c \in Callers, p \in P : healthcheck_call(c, p)
    \/ \E c \in Callers : healthcheck_locked(c)
    \/ \E c \in Callers : healthcheck_pass(c)
    \/ \E c \in Callers : healthcheck_return(c)
    \/ \E p \in P : timer_tick(p)
    \/ \E p \in P : timer_pass_end(p)

\* every provider, one name and one handle list
NextProviders == StepLock(Providers, {"a"}, {<<"h1">>}, HealthCheckConfigs)

Spec == Init /\ [][Next]_vars

SpecProviders == Init /\ [][NextProviders]_vars

\* the group records try_from is applied to
InitGroup ==
    /\ new_result = [p \in Providers |-> NotCalled]
    /\ self = [p \in Providers |-> NoProvider]
    /\ inner = [p \in Providers |-> Free]
    /\ hc_lock = [p \in Providers |-> Free]
    /\ timer = [p \in Providers |-> "off"]
    /\ called = [p \in Providers |-> FALSE]
    /\ given = [p \in Providers |-> NoProvider]
    /\ pc = [c \in Callers |-> "idle"]
    /\ target = [c \in Callers |-> NoTarget]
    /\ pending = [c \in Callers |-> NoOne]
    /\ ret = NoRet
    /\ mapping \in Mappings
    /\ parsed = NoParse

NextGroup == try_from

SpecGroup == InitGroup /\ [][NextGroup]_vars

\* one provider, the lock-taking operations, a fair lock and terminating engine calls
NextFair == StepLock({1}, {"a"}, {<<"h1">>}, HealthCheckConfigs)

Fairness ==
    /\ \A c \in Callers : SF_vars(touch_locked(c)) /\ SF_vars(touch_return(c))
    /\ \A c \in Callers : SF_vars(healthcheck_locked(c)) /\ SF_vars(healthcheck_pass(c))
    /\ \A c \in Callers : WF_vars(healthcheck_return(c))
    /\ \A p \in Providers : WF_vars(timer_pass_end(p))

FairSpec == Init /\ [][NextFair]_vars /\ Fairness

\* ------------------------------------------------------------ properties

\* C1: PlainProvider::new returns Error::InvalidConfig exactly when the proxies
\* list it was given is empty, and Ok otherwise, whatever the name and the
\* HealthCheck configuration.
NewFailsIffEmpty ==
    \A p \in Providers :
        new_result[p].tag # "none" =>
            IF given[p].proxies = <<>>
            THEN new_result[p] = InvalidConfig(given[p].name)
            ELSE new_result[p] = OkResult

NewFailedWithAutoEngine ==
    \E p \in Providers :
        /\ new_result[p].tag = "InvalidConfig"
        /\ given[p].proxies = <<>>
        /\ auto(given[p].hc)

\* the probe passes in flight on the engine of provider p
PassesInFlight(p) == Cardinality(ForcedPasses(p)) + (IF timer[p] = "probing" THEN 1 ELSE 0)

\* C2: on one engine no two probe passes are in flight at once, whether started
\* by a tick of the timer or by healthcheck().
NoOverlappingPasses == \A p \in Providers : PassesInFlight(p) <= 1

ForcedCheckWaitsForTimerPass ==
    \E p \in Providers, c \in Callers :
        /\ auto(given[p].hc)
        /\ timer[p] = "probing"
        /\ pc[c] = "check_hc" /\ target[c] = p

\* C4: as_map() never takes the lock of the engine: a caller inside as_map()
\* holds neither lock and can always complete, whoever holds the locks.
AsMapNeverWaits ==
    \A c \in Callers :
        pc[c] = "as_map" =>
            /\ ENABLED as_map_return(c)
            /\ \A p \in Providers : inner[p] # c /\ hc_lock[p] # c

AsMapReturnedDuringPass ==
    /\ ret.op = "as_map"
    /\ \E d \in Callers :
          pc[d] = "check_pass" /\ target[d] = ret.of /\ inner[ret.of] = d

\* the provider holds, and proxies() returns, the handles new was given
HandlesAsConstructed ==
    /\ \A p \in Providers :
          Built(p) => /\ self[p].proxies # <<>>
                      /\ proxies(p) = given[p].proxies
    /\ ret.op = "proxies" => ret.val = given[ret.of].proxies /\ Len(ret.val) >= 1
    /\ ret.op \in {"initialize", "update"} => ret.val = "Ok" /\ self[ret.of] = given[ret.of]

\* a step in which initialize() or update() returns changes no provider state
InitializeUpdateChangeNothing ==
    ret'.op \in {"initialize", "update"} =>
        UNCHANGED <<new_result, self, inner, hc_lock, timer, called, pc, target>>

\* C3: after a successful construction the handle set is never empty and
\* proxies() returns the handles given to new, in the same order, whatever calls
\* ran in between; initialize() and update() return Ok and change nothing.
ProxiesStable == []HandlesAsConstructed /\ [][InitializeUpdateChangeNothing]_vars

ProxiesReturnedAfterCalls ==
    /\ ret.op = "proxies"
    /\ Len(ret.val) >= 2 /\ ret.val[1] # ret.val[2]
    /\ called[ret.of]
    /\ \E c \in Callers : pc[c] = "check_pass" /\ target[c] = ret.of

\* C5: an engine whose auto flag is set has its loop running from a successful
\* construction on, before any touch() or healthcheck(); without auto the loop
\* runs only once touch() or healthcheck() was called; a failed construction
\* never starts it.
LoopStartedOnlyAsConfigured ==
    \A p \in Providers :
        /\ new_result[p].tag \in {"none", "InvalidConfig"} => timer[p] = "off"
        /\ Built(p) /\ auto(given[p].hc) => timer[p] # "off"
        /\ Built(p) /\ ~auto(given[p].hc) /\ timer[p] # "off" => called[p]

AutoLoopRunsBeforeFirstCall ==
    \E p \in Providers :
        Built(p) /\ auto(given[p].hc) /\ ~called[p] /\ timer[p] = "probing"

\* the summaries of a handle list, in order
Summaries(ps) == [i \in 1..Len(ps) |-> HandlerAsMap(ps[i])]

\* C8: as_map() of a constructed provider carries the name given to new, the
\* proxy-set type tag, the compatible vehicle tag and one summary per handle of
\* the construction list in its order, on every call.
AsMapAsConstructed ==
    /\ \A p \in Providers :
          Built(p) => as_map(p) = [name |-> given[p].name,
                                   type |-> ProviderTypeToString("Proxy"),
                                   vehicleType |-> ProviderVehicleTypeToString("Compatible"),
                                   proxies |-> Summaries(given[p].proxies)]
    /\ ret.op = "as_map" =>
          /\ ret.val.name = given[ret.of].name
          /\ ret.val.type = ProviderTypeToString("Proxy")
          /\ ret.val.vehicleType = ProviderVehicleTypeToString("Compatible")
          /\ ret.val.proxies = Summaries(given[ret.of].proxies)

AsMapReturnedAfterCalls ==
    /\ ret.op = "as_map"
    /\ called[ret.of]
    /\ Len(ret.val.proxies) >= 2 /\ ret.val.proxies[1] # ret.val.proxies[2]

\* the callers inside the engine of provider p (hc.touch or hc.check)
InEngine(p) == {c \in Callers : pc[c] \in {"touch_hc", "check_hc", "check_pass"} /\ target[c] = p}

\* C9: at most one caller is inside the engine of a provider, and it holds the
\* provider's lock for the whole engine call; a caller waiting for the lock of
\* one provider gets it as soon as that lock is free, whatever the locks of the
\* other providers.
EngineAccessExclusive ==
    /\ \A p \in Providers :
          /\ Cardinality(InEngine(p)) <= 1
          /\ \A c \in InEngine(p) : inner[p] = c
    /\ \A c \in Callers :
          /\ pc[c] = "touch_lock" /\ inner[target[c]] = Free => ENABLED touch_locked(c)
          /\ pc[c] = "check_lock" /\ inner[target[c]] = Free => ENABLED healthcheck_locked(c)

TwoProvidersBusy ==
    \E p, q \in Providers, c, d \in Callers :
        /\ p # q /\ c # d
        /\ pc[c] = "check_pass" /\ target[c] = p
        /\ pc[d] \in {"touch_hc", "check_hc"} /\ target[d] = q

\* a caller that returned holds no lock, and a touch() issued during a forced
\* pass is inside the engine only once that pass has completed
ReturnedHoldsNoLock ==
    \A c \in Callers :
        /\ pc[c] = "idle" => \A p \in Providers : inner[p] # c /\ hc_lock[p] # c
        /\ pc[c] = "touch_hc" => pending[c] = NoOne

\* C10: under a fair lock and terminating engine calls every touch() and
\* healthcheck() call returns, and a caller that returned holds no lock; a
\* touch() issued while a forced pass was in flight enters the engine, and so
\* returns, only after that pass has completed.
EveryCallReturns ==
    /\ []ReturnedHoldsNoLock
    /\ \A c \in Callers : (pc[c] # "idle") ~> (pc[c] = "idle")

TouchIssuedDuringForcedPass ==
    \E c, d \in Callers :
        /\ pc[c] = "touch_lock" /\ pending[c] = d
        /\ pc[d] = "check_pass" /\ target[d] = target[c]

\* ----------------------------------------------- properties of try_from

KnownTags == {"relay", "url-test", "fallback", "load-balance", "select"}
ProbingTags == {"url-test", "fallback", "load-balance"}
KindOf(t) ==
    CASE t = "relay" -> "Relay" [] t = "url-test" -> "UrlTest" [] t = "fallback" -> "Fallback"
      [] t = "load-balance" -> "LoadBalance" [] t = "select" -> "Select"

\* the fields the record of a kind declares without Option<..>
RequiredFields(t) ==
    CASE t = "relay" -> {"name"}
      [] t = "url-test" -> {"name", "url", "interval"}
      [] t = "fallback" -> {"name", "proxies", "url", "interval"}
      [] t = "load-balance" -> {"name", "url", "interval"}
      [] t = "select" -> {"name"}

\* the fields the specification requires of a kind: the name, and the url and
\* interval of the probing kinds; proxies and use are optional for every kind
SpecRequiredFields(t) == IF t \in ProbingTags THEN {"name", "url", "interval"} ELSE {"name"}

Tried == parsed # NoParse
InvalidConfigError == [ok |-> FALSE, err |-> "InvalidConfig"]
KnownKind == mapping.type # <<>> /\ mapping.type[1] \in KnownTags
Complete == KnownKind /\ \A f \in SpecRequiredFields(mapping.type[1]) : mapping[f] # <<>>

\* an unknown or absent type tag, and a probing kind without url or interval,
\* are InvalidConfig errors
RejectsBadRecords ==
    Tried =>
        /\ ~KnownKind => parsed = InvalidConfigError
        /\ (/\ KnownKind
            /\ mapping.type[1] \in ProbingTags
            /\ (mapping.url = <<>> \/ mapping.interval = <<>>))
              => parsed = InvalidConfigError

\* a record with a known tag and the required fields of its kind is accepted
\* as that kind, with the url and interval it carries
AcceptsCompleteRecords ==
    Tried /\ Complete =>
        /\ parsed.ok
        /\ parsed.value.kind = KindOf(mapping.type[1])
        /\ parsed.value.name = mapping.name[1]
        /\ mapping.type[1] \in ProbingTags =>
              /\ parsed.value.url = mapping.url[1]
              /\ parsed.value.interval = mapping.interval[1]

\* a record with a known tag and every field its record declares without
\* Option<..> (for fallback: proxies too) is accepted as that kind
AcceptsDeclaredCompleteRecords ==
    (/\ Tried /\ KnownKind
     /\ \A f \in RequiredFields(mapping.type[1]) : mapping[f] # <<>>)
        => parsed.ok /\ parsed.value.kind = KindOf(mapping.type[1])

\* C6: try_from is an InvalidConfig error, never a value with a defaulted
\* field, for an unknown type tag and for a url-test, fallback or load-balance
\* record without url or interval; a record with a known tag and all required
\* fields of its kind is accepted as that kind.
GroupRecordsSettled == RejectsBadRecords /\ AcceptsCompleteRecords

\* C7: for each of the five kinds, a record with the required fields and only
\* use (no proxies) is accepted and keeps its use list, and a record with only
\* proxies is accepted.
ProxiesAndUseOptional ==
    Tried /\ Complete =>
        /\ (mapping.use # <<>> /\ mapping.proxies = <<>>)
              => parsed.ok /\ parsed.value.use_provider = mapping.use
        /\ (mapping.use = <<>> /\ mapping.proxies # <<>>) => parsed.ok

====
